---------------------------- MODULE Spec2Model ----------------------------
(***************************************************************************)
(* A model of packages/react/src/useClaude.ts: the module-level shared     *)
(* WebSocket (one per URL), and one useClaude hook instance (the session   *)
(* controller) with its stream accumulator.                                *)
(*                                                                         *)
(* React semantics the hook relies on:                                     *)
(*   - a ref (useRef) is written at once;                                  *)
(*   - a state setter call (setX(v) or setX(updater)) is queued and takes  *)
(*     effect at the next render; at a render the queues are processed     *)
(*     hook by hook in the order of the useState declarations, each queue  *)
(*     in call order, and an updater function runs then (with whatever it  *)
(*     does to refs);                                                      *)
(*   - an effect runs after a render in which one of its dependencies      *)
(*     changed.                                                            *)
(* A render can take place between any two handlers, never inside one.     *)
(* Text is a sequence of one-character strings; timestamps are left out.   *)
(***************************************************************************)
EXTENDS Integers, Sequences, FiniteSets, TLC

VARIABLES
  h,        \* the hook instance: React state, refs, pending setter calls
  shared,   \* SharedWebSocketState of the URL
  socks,    \* readyState of every WebSocket whose handlers can still run
  timers,   \* pending reconnect timers (setTimeout handles), with their delay
  status,   \* ConnectionStatus of each hook instance sharing the URL
  sent,     \* frames transmitted on the shared socket, oldest first
  log,      \* history: the frames dispatched to the hook (or their number),
            \* or the frames still to come for twin
  twin      \* a second copy of the hook, fed the events of a snapshot live

vars == <<h, shared, socks, timers, status, sent, log, twin>>

---------------------------------------------------------------------------
(* Bounds of the model *)

MaxFrames == 3     \* frames dispatched to the hook in a behaviour
MaxScript == 5     \* frames of a turn whose events are kept in log
MaxSends == 2      \* accepted send() calls
MaxSeq == 2        \* largest seq / currentSeq a frame carries
MaxSockets == 2    \* WebSockets alive at the same time
MaxTimers == 2     \* reconnect timers pending at the same time
MaxSent == 3       \* frames recorded in sent
MaxEvents == 2     \* envelopes in a snapshot's events array
MaxQueue == 7      \* setter calls pending when a handler or operation starts
MaxOpenListeners == 2  \* onConnect callbacks waiting for the socket to open

(* Program constants *)

RECONNECT_DELAY == 2000
MAX_RECONNECT_ATTEMPTS == 10

maxReconnectAttempts == 5  \* default of the hook option of that name
Hooks == {1, 2}            \* hook instances mounted against the URL; 1 is h
Sessions == {"s1"}
NoSession == "null"

---------------------------------------------------------------------------
(* Values *)

IsBlank(c) == \A i \in 1..Len(c) : c[i] = " "

TextBlock(c) == [type |-> "text", content |-> c, tools |-> <<>>]
ToolGroupBlock(ts) == [type |-> "tool_group", content |-> <<>>, tools |-> ts]

\* an optional field of a payload that is absent is no field of the record
Has(payload, field) == field \in DOMAIN payload

\* ToolUseData: an optional field of a tool that is absent is 0
StartTool(i) == [id |-> i, input |-> 1, duration |-> 0]
EndTool(i) == [id |-> i, input |-> 0, duration |-> 12]

HasId(ts, i) == \E k \in 1..Len(ts) : ts[k].id = i

\* { ...t, ...payload.tool }
MergeTool(t, p) ==
  [id |-> p.id,
   input |-> IF p.input # 0 THEN p.input ELSE t.input,
   duration |-> IF p.duration # 0 THEN p.duration ELSE t.duration]

RECURSIVE FilterNotId(_, _)
FilterNotId(ts, i) ==
  IF ts = <<>> THEN <<>>
  ELSE IF Head(ts).id = i THEN FilterNotId(Tail(ts), i)
       ELSE <<Head(ts)>> \o FilterNotId(Tail(ts), i)

MapMerge(ts, p) ==
  [k \in 1..Len(ts) |-> IF ts[k].id = p.id THEN MergeTool(ts[k], p) ELSE ts[k]]

UserMessage(i, c) ==
  [id |-> i, role |-> "user", content |-> c, isStreaming |-> FALSE,
   tools |-> <<>>, contentBlocks |-> <<>>]
AssistantMessage(i, c, ts, bs, st) ==
  [id |-> i, role |-> "assistant", content |-> c, isStreaming |-> st,
   tools |-> ts, contentBlocks |-> bs]

\* Array.prototype.findIndex: the first index (from 1), 0 when there is none
FindIndex(ms, P(_)) ==
  IF \E k \in 1..Len(ms) : P(ms[k])
  THEN CHOOSE k \in 1..Len(ms) : P(ms[k]) /\ \A j \in 1..(k-1) : ~P(ms[j])
  ELSE 0

Max(a, b) == IF a > b THEN a ELSE b
Min(a, b) == IF a < b THEN a ELSE b

---------------------------------------------------------------------------
(* Frames (WebSocketMessage) *)

ChatFrame(q, p) == [type |-> "chat", seq |-> q, payload |-> p]
SystemFrame(q, p) == [type |-> "system", seq |-> q, payload |-> p]

Token(c) == [action |-> "token", content |-> c]
ToolStart(i) == [action |-> "tool_start", tool |-> StartTool(i)]
ToolEnd(i) == [action |-> "tool_end", tool |-> EndTool(i)]
TodoUpdate(t) == [action |-> "todo_update", todos |-> t]
Thinking == [action |-> "thinking"]
Complete == [action |-> "complete"]
ChatError(e) == [action |-> "error", error |-> e]
Connected(cs) == [action |-> "connected", currentSeq |-> cs]
Snapshot(evs) == [action |-> "snapshot", events |-> evs]
SnapshotState(evs, cs) ==
  [action |-> "snapshot", sessionId |-> "s1", events |-> evs, chatState |-> cs]
SystemError(e) == [action |-> "error", error |-> e]

ChatState(st, c, ts) ==
  [status |-> st, accumulatedContent |-> c, tools |-> ts]

---------------------------------------------------------------------------
(* Setter calls *)

Upd(hk, op, val) == [hk |-> hk, op |-> op, val |-> val]
\* The queue after one more setter call.  A plain value (op "set") that the
\* next call on the same state hook replaces by another plain value is never
\* rendered nor read: the later call takes its place in the queue.
LastOf(q, hk) ==
  IF \E k \in 1..Len(q) : q[k].hk = hk
  THEN CHOOSE k \in 1..Len(q) : q[k].hk = hk /\ \A j \in (k+1)..Len(q) : q[j].hk # hk
  ELSE 0

Enqueue(q, u) ==
  LET k == LastOf(q, u.hk)
  IN IF u.op = "set" /\ k > 0 /\ q[k].op = "set"
     THEN [j \in 1..Len(q) |-> IF j = k THEN u ELSE q[j]]
     ELSE Append(q, u)

Enq(s, u) == [s EXCEPT !.queue = Enqueue(@, u)]

\* the useState declarations of useClaude, in order
HookOrder == <<"sessionId", "error", "messages", "streamingContent",
               "activeTools", "completedTools", "todos", "isStreaming">>


---------------------------------------------------------------------------
(* Chat action handlers: each takes the hook s and gives the hook after it *)

handleTokenAction(payload, s) ==
  IF ~Has(payload, "content") \/ payload.content = <<>> THEN s
  ELSE Enq([s EXCEPT !.pendingText = @ \o payload.content],
           Upd("streamingContent", "append", payload.content))

\* mutant: pending text is flushed as a text block whatever it holds
FlushPendingText_NoTrim(s) ==
  [s EXCEPT !.contentBlocks = Append(@, TextBlock(s.pendingText)),
            !.pendingText = <<>>]

\* flush pending text as a text block, unless it trims to ''
FlushPendingText(s) ==
  IF ~IsBlank(s.pendingText)
  THEN [s EXCEPT !.contentBlocks = Append(@, TextBlock(s.pendingText)),
                 !.pendingText = <<>>]
  ELSE s

\* mutant: the tool is added without the check of its id
AddToGroup_NoDedupe(group, tool) == Append(group, tool)

\* add the tool to the current tool group (deduplicated)
AddToGroup(group, tool) ==
  IF HasId(group, tool.id) THEN group ELSE Append(group, tool)

handleToolStartAction(payload, s) ==
  IF ~Has(payload, "tool") THEN s
  ELSE LET s1 == FlushPendingText(s)
           s2 == [s1 EXCEPT !.currentToolGroup = AddToGroup(@, payload.tool)]
       IN Enq(s2, Upd("activeTools", "start", payload.tool))

handleToolEndAction(payload, s) ==
  IF ~Has(payload, "tool") THEN s
  ELSE LET s1 == [s EXCEPT !.currentToolGroup = MapMerge(@, payload.tool)]
           s2 == Enq(s1, Upd("activeTools", "end", payload.tool))
       IN Enq(s2, Upd("completedTools", "add", payload.tool))

handleTodoUpdateAction(payload, s) ==
  IF Has(payload, "todos") THEN Enq(s, Upd("todos", "set", payload.todos)) ELSE s

resetStreamingState(s) ==
  LET s1 == Enq(s, Upd("streamingContent", "set", <<>>))
      s2 == Enq([s1 EXCEPT !.streamingContentRef = <<>>], Upd("activeTools", "set", <<>>))
      s3 == Enq(s2, Upd("completedTools", "set", <<>>))
  IN [s3 EXCEPT !.completedToolsRef = <<>>,
                !.contentBlocks = <<>>,
                !.pendingText = <<>>,
                !.currentToolGroup = <<>>,
                !.currentAssistantMessage = 0]

\* mutant: the group is sealed as a block and stays open
FlushToolGroup_KeepsGroup(s) ==
  IF Len(s.currentToolGroup) > 0
  THEN [s EXCEPT !.contentBlocks = Append(@, ToolGroupBlock(s.currentToolGroup))]
  ELSE s

\* flush a remaining tool group as a content block
FlushToolGroup(s) ==
  IF Len(s.currentToolGroup) > 0
  THEN [s EXCEPT !.contentBlocks = Append(@, ToolGroupBlock(s.currentToolGroup)),
                 !.currentToolGroup = <<>>]
  ELSE s

handleCompleteAction(s) ==
  LET s1 == Enq(s, Upd("isStreaming", "set", FALSE))
      s2 == [s1 EXCEPT !.isStreamingRef = FALSE]
      s3 == FlushToolGroup(FlushPendingText(s2))
      final == [content |-> s3.streamingContentRef,
                tools |-> s3.completedToolsRef,
                contentBlocks |-> s3.contentBlocks,
                id |-> s3.currentAssistantMessage]
  IN resetStreamingState(Enq(s3, Upd("messages", "complete", final)))

\* payload.error || dflt
ErrorText(payload, dflt) ==
  IF Has(payload, "error") /\ payload.error # "" THEN payload.error ELSE dflt

handleErrorAction(payload, s) ==
  LET s1 == Enq(s, Upd("isStreaming", "set", FALSE))
      s2 == [s1 EXCEPT !.isStreamingRef = FALSE]
      s3 == Enq(s2, Upd("error", "set", ErrorText(payload, "Unknown error")))
  IN resetStreamingState([s3 EXCEPT !.onErrorCalls = @ + 1])

handleChatPayload(payload, s) ==
  CASE payload.action = "token" -> handleTokenAction(payload, s)
    [] payload.action = "tool_start" -> handleToolStartAction(payload, s)
    [] payload.action = "tool_end" -> handleToolEndAction(payload, s)
    [] payload.action = "todo_update" -> handleTodoUpdateAction(payload, s)
    [] payload.action = "thinking" -> s
    [] payload.action = "complete" -> handleCompleteAction(s)
    [] payload.action = "error" -> handleErrorAction(payload, s)
    [] payload.action \in {"send", "cancel"} -> s

---------------------------------------------------------------------------
(* System action handlers *)

handleConnectedAction(payload, s) ==
  IF Has(payload, "currentSeq") /\ payload.currentSeq # 0
  THEN [s EXCEPT !.lastSeq = payload.currentSeq]
  ELSE s

\* restore chat state from a snapshot's chatState
RestoreChatState(payload, s) ==
  IF ~Has(payload, "chatState") THEN s
  ELSE LET state == payload.chatState
           s1 == IF state.status = "streaming"
                 THEN Enq([Enq(s, Upd("isStreaming", "set", TRUE))
                             EXCEPT !.isStreamingRef = TRUE],
                          Upd("streamingContent", "set", state.accumulatedContent))
                 ELSE s
           s2 == IF Has(state, "tools")
                 THEN Enq(s1, Upd("completedTools", "set", state.tools))
                 ELSE s1
       IN IF Has(state, "todos")
          THEN Enq(s2, Upd("todos", "set", state.todos))
          ELSE s2

handleSystemErrorAction(payload, s) ==
  [Enq(s, Upd("error", "set", ErrorText(payload, "System error")))
     EXCEPT !.onErrorCalls = @ + 1]

\* msg.seq > lastSeqRef.current
UpdateSeq(s, seq) == IF seq > s.lastSeq THEN [s EXCEPT !.lastSeq = seq] ELSE s

RECURSIVE handleMessage(_, _)
RECURSIVE ReplayEvents(_, _)

\* for (const event of payload.events) handleMessage(JSON.stringify(event))
ReplayEvents(events, s) ==
  IF events = <<>> THEN s
  ELSE ReplayEvents(Tail(events), handleMessage(Head(events), s))

handleSnapshotAction(payload, s) ==
  LET s1 == IF Has(payload, "sessionId")
            THEN Enq(s, Upd("sessionId", "set", payload.sessionId))
            ELSE s
      s2 == IF Has(payload, "events") THEN ReplayEvents(payload.events, s1) ELSE s1
  IN RestoreChatState(payload, s2)

handleSystemPayload(payload, s) ==
  CASE payload.action = "connected" -> handleConnectedAction(payload, s)
    [] payload.action = "snapshot" -> handleSnapshotAction(payload, s)
    [] payload.action = "error" -> handleSystemErrorAction(payload, s)
    [] payload.action \in {"catch_up", "subscribe"} -> s

\* event.data that is no JSON text: JSON.parse throws
NotJSON == [raw |-> "not json"]
ParseFails(msg) == Has(msg, "raw")

ChatActions ==
  {"token", "tool_start", "tool_end", "todo_update", "thinking", "complete",
   "error", "send", "cancel"}
SystemActions == {"connected", "snapshot", "error", "catch_up", "subscribe"}

\* the declared shape of the optional object fields of a payload
IsTool(t) == Has(t, "id")
IsChatState(c) == Has(c, "status")

\* mutant: validation that looks at the tag of the payload only
validateChatPayload_TagOnly(payload) ==
  Has(payload, "action") /\ payload.action \in ChatActions

\* validateChatPayload(msg.payload) gives a payload, not null
validateChatPayload(payload) ==
  /\ Has(payload, "action")
  /\ payload.action \in ChatActions
  /\ Has(payload, "tool") => IsTool(payload.tool)

\* validateSystemPayload(msg.payload) gives a payload, not null
validateSystemPayload(payload) ==
  /\ Has(payload, "action")
  /\ payload.action \in SystemActions
  /\ Has(payload, "chatState") => IsChatState(payload.chatState)

\* mutant: the seq of a frame is read before the frame is known to parse
handleMessage_SeqFirst(msg, s) ==
  IF ParseFails(msg) THEN [s EXCEPT !.lastSeq = @ + 1] ELSE s

handleMessage(msg, s) ==
  IF ParseFails(msg) THEN s
  ELSE LET s1 == UpdateSeq(s, msg.seq)
       IN CASE msg.type = "chat" ->
                 IF validateChatPayload(msg.payload)
                 THEN handleChatPayload(msg.payload, s1) ELSE s1
            [] msg.type = "system" ->
                 IF validateSystemPayload(msg.payload)
                 THEN handleSystemPayload(msg.payload, s1) ELSE s1
            [] OTHER -> s1

---------------------------------------------------------------------------
(* Render: the queued setter calls take effect *)

\* the updater of setActiveTools in handleToolEndAction, with its flush of
\* the tool group once no tool is active
ApplyToolEnd(s, tool) ==
  LET filtered == FilterNotId(s.activeTools, tool.id)
      s1 == IF Len(filtered) = 0 THEN FlushToolGroup(s) ELSE s
  IN [s1 EXCEPT !.activeTools = filtered, !.depsChanged = TRUE]

\* mutant: without a message of the id, complete overwrites the first
\* assistant message, streaming or not
ApplyComplete_AnyAssistant(s, final) ==
  LET byId == FindIndex(s.messages, LAMBDA m : m.id = final.id)
      idx == IF byId > 0 THEN byId
             ELSE FindIndex(s.messages, LAMBDA m : m.role = "assistant")
  IN IF idx > 0
     THEN [s EXCEPT !.messages[idx].content = final.content,
                    !.messages[idx].tools = final.tools,
                    !.messages[idx].contentBlocks = final.contentBlocks,
                    !.messages[idx].isStreaming = FALSE]
     ELSE s

\* the updater of setMessages in handleCompleteAction
ApplyComplete(s, final) ==
  LET byId == FindIndex(s.messages, LAMBDA m : m.id = final.id)
      idx == IF byId > 0 THEN byId
             ELSE FindIndex(s.messages, LAMBDA m : m.isStreaming)
  IN IF idx > 0
     THEN [s EXCEPT !.messages[idx].content = final.content,
                    !.messages[idx].tools = final.tools,
                    !.messages[idx].contentBlocks = final.contentBlocks,
                    !.messages[idx].isStreaming = FALSE]
     ELSE IF final.content # <<>> \/ Len(final.tools) > 0
                \/ Len(final.contentBlocks) > 0
          THEN [s EXCEPT !.messages =
                           Append(@, AssistantMessage(s.nextId, final.content,
                                       final.tools, final.contentBlocks, FALSE)),
                         !.nextId = @ + 1]
          ELSE s

\* the content blocks the live-update effect shows: the sealed blocks, the
\* pending text and the current tool group, read from the refs
LiveContentBlocks(s) ==
  s.contentBlocks
    \o (IF ~IsBlank(s.pendingText) THEN <<TextBlock(s.pendingText)>> ELSE <<>>)
    \o (IF Len(s.currentToolGroup) > 0
        THEN <<ToolGroupBlock(s.currentToolGroup)>> ELSE <<>>)

\* the updater of setMessages in the live-update effect; live holds the
\* streamingContent, activeTools and completedTools of the render it closed over
ApplyLive(s, live) ==
  LET idx == FindIndex(s.messages, LAMBDA m : m.id = s.currentAssistantMessage)
  IN IF idx > 0
     THEN [s EXCEPT !.messages[idx].content = live.content,
                    !.messages[idx].tools = live.active \o live.completed,
                    !.messages[idx].contentBlocks = LiveContentBlocks(s)]
     ELSE s

ApplyUpdate(s, u) ==
  CASE u.hk = "sessionId" -> [s EXCEPT !.sessionId = u.val]
    [] u.hk = "error" -> [s EXCEPT !.error = u.val]
    [] u.hk = "todos" -> [s EXCEPT !.todos = u.val]
    [] u.hk = "isStreaming" ->
         [s EXCEPT !.isStreaming = u.val,
                   !.depsChanged = @ \/ (s.isStreaming # u.val)]
    [] u.hk = "streamingContent" /\ u.op = "set" ->
         [s EXCEPT !.streamingContent = u.val,
                   !.depsChanged = @ \/ (s.streamingContent # u.val)]
    [] u.hk = "streamingContent" /\ u.op = "append" ->
         [s EXCEPT !.streamingContent = @ \o u.val,
                   !.streamingContentRef = s.streamingContent \o u.val,
                   !.depsChanged = TRUE]
    [] u.hk = "activeTools" /\ u.op = "set" ->
         [s EXCEPT !.activeTools = u.val, !.depsChanged = TRUE]
    [] u.hk = "activeTools" /\ u.op = "start" ->
         IF HasId(s.activeTools, u.val.id) THEN s
         ELSE [s EXCEPT !.activeTools = Append(@, u.val), !.depsChanged = TRUE]
    [] u.hk = "activeTools" /\ u.op = "end" -> ApplyToolEnd(s, u.val)
    [] u.hk = "completedTools" /\ u.op = "set" ->
         [s EXCEPT !.completedTools = u.val, !.depsChanged = TRUE]
    [] u.hk = "completedTools" /\ u.op = "add" ->
         IF HasId(s.completedTools, u.val.id) THEN s
         ELSE [s EXCEPT !.completedTools = Append(@, u.val),
                        !.completedToolsRef = Append(s.completedTools, u.val),
                        !.depsChanged = TRUE]
    [] u.hk = "messages" /\ u.op = "set" -> [s EXCEPT !.messages = u.val]
    [] u.hk = "messages" /\ u.op = "send" -> [s EXCEPT !.messages = @ \o u.val]
    [] u.hk = "messages" /\ u.op = "complete" -> ApplyComplete(s, u.val)
    [] u.hk = "messages" /\ u.op = "live" -> ApplyLive(s, u.val)

\* the hook after each of the calls us, the last of ss being the hook before
RECURSIVE ApplyEach(_, _)
ApplyEach(ss, us) ==
  IF us = <<>> THEN ss
  ELSE ApplyEach(Append(ss, ApplyUpdate(ss[Len(ss)], Head(us))), Tail(us))

ApplyAll(s, us) == LET ss == ApplyEach(<<s>>, us) IN ss[Len(ss)]

\* the queued calls of one state hook, in call order
QueueOf(s, hk) == SelectSeq(s.queue, LAMBDA u : u.hk = hk)

RECURSIVE InHookOrder(_, _)
InHookOrder(s, k) ==
  IF k > Len(HookOrder) THEN <<>>
  ELSE QueueOf(s, HookOrder[k]) \o InHookOrder(s, k + 1)

\* the live-update effect (deps: streamingContent, activeTools,
\* completedTools, isStreaming)
LiveUpdateEffect(s) ==
  IF s.depsChanged /\ s.isStreaming /\ s.currentAssistantMessage # 0
  THEN Enq(s, Upd("messages", "live",
                  [content |-> s.streamingContent, active |-> s.activeTools,
                   completed |-> s.completedTools]))
  ELSE s

RenderHook(s) ==
  LET s1 == ApplyAll([s EXCEPT !.queue = <<>>, !.depsChanged = FALSE],
                     InHookOrder(s, 1))
  IN [LiveUpdateEffect(s1) EXCEPT !.depsChanged = FALSE]

---------------------------------------------------------------------------
(* The shared WebSocket of the URL.  w is the record of what the module-   *)
(* level functions read and write: shared (SharedWebSocketState), socks,   *)
(* timers, status, sent.  A socket is a slot of socks; a slot is "NONE"    *)
(* from the socket's close event on, and is then used again.               *)

SockIds == 1..MaxSockets
TimerIds == 1..MaxTimers

FreeSock(sk) == CHOOSE k \in SockIds : sk[k] = "NONE" /\ \A j \in 1..(k-1) : sk[j] # "NONE"
FreeTimer(tm) == CHOOSE k \in TimerIds : tm[k] = 0 /\ \A j \in 1..(k-1) : tm[j] # 0

\* state.ws?.readyState === WebSocket.OPEN
WsOpen(w) == w.shared.ws # 0 /\ w.socks[w.shared.ws] = "OPEN"
WsConnecting(w) == w.shared.ws # 0 /\ w.socks[w.shared.ws] = "CONNECTING"

isSharedWebSocketConnected(w) == WsOpen(w)

\* state.ws.send(data)
Transmit(w, frame) == [w EXCEPT !.sent[w.shared.ws] = Append(@, frame)]

sendViaSharedWebSocket(w, frame) == IF WsOpen(w) THEN Transmit(w, frame) ELSE w

SubscribeFrame(sid) == [type |-> "system", action |-> "subscribe", sessionId |-> sid]
SendFrame(sid, c) == [type |-> "chat", action |-> "send", sessionId |-> sid, content |-> c]
CancelFrame(sid) == [type |-> "chat", action |-> "cancel", sessionId |-> sid]

\* mutant: the callback subscribes without a look at subscribedSession
OnConnectCallback_NoMarker(w, cb) ==
  IF cb # NoSession /\ WsOpen(w)
  THEN Transmit([w EXCEPT !.shared.subscribedSession = cb], SubscribeFrame(cb))
  ELSE w

\* the onConnect callback connect() hands to createSharedWebSocket; cb is the
\* sessionId the callback closed over
OnConnectCallback(w, cb) ==
  IF cb # NoSession /\ WsOpen(w) /\ w.shared.subscribedSession # cb
  THEN Transmit([w EXCEPT !.shared.subscribedSession = cb], SubscribeFrame(cb))
  ELSE w

\* state.openListeners.add(onConnect); NoCallback when onConnect is omitted.
\* Every connect() call hands over a closure of its own, so the set holds one
\* entry for each call, in the order of the calls.
NoCallback == "none"
AddOpenListener(w, cb) ==
  IF cb = NoCallback THEN w
  ELSE [w EXCEPT !.shared.openListeners = Append(@, cb)]

\* whether createSharedWebSocket gets as far as new WebSocket(url)
CreatesSocket(w) == ~WsOpen(w) /\ ~WsConnecting(w) /\ ~w.shared.connecting

createSharedWebSocket(w, cb) ==
  IF WsOpen(w) THEN (IF cb = NoCallback THEN w ELSE OnConnectCallback(w, cb))
  ELSE IF WsConnecting(w) THEN AddOpenListener(w, cb)
  ELSE IF w.shared.connecting THEN AddOpenListener(w, cb)
  ELSE LET w1 == AddOpenListener([w EXCEPT !.shared.connecting = TRUE], cb)
           k == FreeSock(w.socks)
       IN [w1 EXCEPT !.shared.ws = k, !.socks[k] = "CONNECTING"]

\* the connection listener a hook registers: setStatus
NotifyConnection(w, connected, reconnecting) ==
  LET st == IF connected THEN "connected"
            ELSE IF reconnecting THEN "reconnecting" ELSE "disconnected"
  IN [w EXCEPT !.status = [i \in Hooks |->
                             IF i \in w.shared.connectionListeners THEN st
                             ELSE w.status[i]]]

RECURSIVE RunOpenListeners(_, _)
RunOpenListeners(w, cbs) ==
  IF cbs = <<>> THEN w
  ELSE RunOpenListeners(OnConnectCallback(w, Head(cbs)), Tail(cbs))

\* ws.onopen of socket k
OnOpen(w, k) ==
  LET w1 == [w EXCEPT !.socks[k] = "OPEN",
                      !.shared.connecting = FALSE,
                      !.shared.reconnectAttempts = 0]
      w2 == NotifyConnection(w1, TRUE, FALSE)
      w3 == RunOpenListeners(w2, w2.shared.openListeners)
  IN [w3 EXCEPT !.shared.openListeners = <<>>]

\* mutant: a delay that doubles with every attempt
ReconnectDelay_Doubling(attempts) == RECONNECT_DELAY * 2 ^ (attempts - 1)

\* mutant: a delay that grows with every attempt, without a cap
ReconnectDelay_NoCap(attempts) == RECONNECT_DELAY * attempts

ReconnectDelay(attempts) == RECONNECT_DELAY * Min(attempts, 5)

\* whether onclose schedules a reconnect
SchedulesReconnect(sh) ==
  sh.messageListeners # {} /\ sh.reconnectAttempts < MAX_RECONNECT_ATTEMPTS

\* ws.onclose of socket k (after ws.onerror, when the socket failed)
OnClose(w, k) ==
  LET w1 == [w EXCEPT !.socks[k] = "NONE",
                      !.sent[k] = <<>>,
                      !.shared.ws = 0,
                      !.shared.connecting = FALSE,
                      !.shared.subscribedSession = NoSession]
      isReconnecting == w1.shared.reconnectAttempts < MAX_RECONNECT_ATTEMPTS
      w2 == NotifyConnection(w1, FALSE, isReconnecting)
  IN IF SchedulesReconnect(w2.shared)
     THEN LET n == w2.shared.reconnectAttempts + 1
              t == FreeTimer(w2.timers)
          IN [w2 EXCEPT !.shared.reconnectAttempts = n,
                        !.shared.reconnectTimeout = t,
                        !.timers[t] = ReconnectDelay(n)]
     ELSE w2

\* a timer callback that clears the timeout and opens no socket
OnReconnectTimer_NoSocket(w, t) ==
  [w EXCEPT !.timers[t] = 0, !.shared.reconnectTimeout = 0]

\* the callback of the reconnect timer t
OnReconnectTimer(w, t) ==
  LET w1 == [w EXCEPT !.timers[t] = 0, !.shared.reconnectTimeout = 0]
  IN IF w1.shared.messageListeners # {}
     THEN createSharedWebSocket(w1, NoCallback)
     ELSE w1

closeSharedWebSocket(w) ==
  LET w1 == IF w.shared.reconnectTimeout # 0
            THEN [w EXCEPT !.timers[w.shared.reconnectTimeout] = 0,
                           !.shared.reconnectTimeout = 0]
            ELSE w
      w2 == IF w1.shared.ws # 0
            THEN [w1 EXCEPT !.socks[w1.shared.ws] = "CLOSING", !.shared.ws = 0]
            ELSE w1
  IN [w2 EXCEPT !.shared.connecting = FALSE,
                !.shared.reconnectAttempts = 0,
                !.shared.subscribedSession = NoSession]

registerMessageListener(w, i) == [w EXCEPT !.shared.messageListeners = @ \cup {i}]

\* the cleanup registerMessageListener returns
unregisterMessageListener(w, i) ==
  LET w1 == [w EXCEPT !.shared.messageListeners = @ \ {i}]
  IN IF w1.shared.messageListeners = {} THEN closeSharedWebSocket(w1) ELSE w1

registerConnectionListener(w, i) == [w EXCEPT !.shared.connectionListeners = @ \cup {i}]
unregisterConnectionListener(w, i) == [w EXCEPT !.shared.connectionListeners = @ \ {i}]

---------------------------------------------------------------------------
(* The hook's operations *)

NoError == "null"

\* connect() of hook i; the hook record s is that of hook 1
connectWorld(w, i, sid) ==
  IF isSharedWebSocketConnected(w)
  THEN [w EXCEPT !.status[i] = "connected"]
  ELSE createSharedWebSocket([w EXCEPT !.status[i] = "connecting"], sid)

connectHook(w, s) ==
  IF isSharedWebSocketConnected(w) THEN s ELSE Enq(s, Upd("error", "set", NoError))

\* send(content): whether it is accepted, and what it does to the hook
SendAccepted(w, s) == isSharedWebSocketConnected(w) /\ ~s.isStreamingRef

\* mutant: send() that appends the user message without its placeholder
AcceptSend_UserOnly(s, content) ==
  LET s1 == Enq(s, Upd("isStreaming", "set", TRUE))
      s2 == [s1 EXCEPT !.isStreamingRef = TRUE,
                       !.currentAssistantMessage = s.nextId + 1,
                       !.nextId = @ + 2]
  IN Enq(s2, Upd("messages", "send", <<UserMessage(s.nextId, content)>>))

\* send() once it is accepted: the new turn's user message and placeholder
AcceptSend(s, content) ==
  LET userMessage == UserMessage(s.nextId, content)
      assistantId == s.nextId + 1
      s1 == Enq(s, Upd("isStreaming", "set", TRUE))
      s2 == Enq([s1 EXCEPT !.isStreamingRef = TRUE],
                Upd("streamingContent", "set", <<>>))
      s3 == Enq([s2 EXCEPT !.streamingContentRef = <<>>],
                Upd("activeTools", "set", <<>>))
      s4 == Enq(s3, Upd("completedTools", "set", <<>>))
      s5 == Enq([s4 EXCEPT !.completedToolsRef = <<>>],
                Upd("error", "set", NoError))
      s6 == [s5 EXCEPT !.currentAssistantMessage = assistantId,
                       !.nextId = @ + 2]
  IN Enq(s6, Upd("messages", "send",
                 <<userMessage,
                   AssistantMessage(assistantId, <<>>, <<>>, <<>>, TRUE)>>))

\* mutant: send() without the check of isStreamingRef
sendHook_NoStreamingCheck(w, s, content) ==
  IF ~isSharedWebSocketConnected(w) THEN Enq(s, Upd("error", "set", "Not connected"))
  ELSE AcceptSend(s, content)

\* mutant: send() that returns without setError('Not connected')
sendHook_NoError(w, s, content) ==
  IF ~isSharedWebSocketConnected(w) THEN s
  ELSE IF s.isStreamingRef THEN s
  ELSE AcceptSend(s, content)

sendHook(w, s, content) ==
  IF ~isSharedWebSocketConnected(w) THEN Enq(s, Upd("error", "set", "Not connected"))
  ELSE IF s.isStreamingRef THEN s
  ELSE AcceptSend(s, content)

sendWorld(w, s, content) ==
  IF SendAccepted(w, s)
  THEN sendViaSharedWebSocket(w, SendFrame(s.sessionId, content))
  ELSE w

cancelWorld(w, s) ==
  IF ~isSharedWebSocketConnected(w) THEN w
  ELSE sendViaSharedWebSocket(w, CancelFrame(s.sessionId))

\* mutant: cancel() that ends the turn locally
cancelHook_Finalizes(w, s) ==
  IF ~isSharedWebSocketConnected(w) THEN s
  ELSE [Enq(s, Upd("isStreaming", "set", FALSE)) EXCEPT !.isStreamingRef = FALSE]

\* cancel() calls no setter and writes no ref
cancelHook(w, s) == s

clearMessages(s) ==
  LET s1 == Enq(s, Upd("messages", "set", <<>>))
      s2 == Enq(s1, Upd("streamingContent", "set", <<>>))
      s3 == Enq(s2, Upd("activeTools", "set", <<>>))
      s4 == Enq(s3, Upd("completedTools", "set", <<>>))
      s5 == Enq(s4, Upd("todos", "set", <<>>))
  IN Enq(s5, Upd("error", "set", NoError))

---------------------------------------------------------------------------
(* Initial state: useClaude has just been called, nothing is mounted *)

InitHook(sid) ==
  [sessionId |-> sid, error |-> NoError, messages |-> <<>>,
   streamingContent |-> <<>>, activeTools |-> <<>>, completedTools |-> <<>>,
   todos |-> <<>>, isStreaming |-> FALSE,
   lastSeq |-> 0, currentAssistantMessage |-> 0,
   streamingContentRef |-> <<>>, completedToolsRef |-> <<>>,
   isStreamingRef |-> FALSE, contentBlocks |-> <<>>, pendingText |-> <<>>,
   currentToolGroup |-> <<>>,
   queue |-> <<>>, depsChanged |-> FALSE, nextId |-> 1, onErrorCalls |-> 0]

InitShared ==
  [ws |-> 0, connecting |-> FALSE, reconnectTimeout |-> 0,
   reconnectAttempts |-> 0, subscribedSession |-> NoSession,
   messageListeners |-> {}, connectionListeners |-> {},
   openListeners |-> <<>>]

Init ==
  /\ h \in {InitHook(sid) : sid \in {NoSession} \cup Sessions}
  /\ shared = InitShared
  /\ socks = [k \in SockIds |-> "NONE"]
  /\ timers = [k \in TimerIds |-> 0]
  /\ status = [i \in Hooks |-> "disconnected"]
  /\ sent = [k \in SockIds |-> <<>>]
  /\ log = <<>>
  /\ twin = <<>>

World == [shared |-> shared, socks |-> socks, timers |-> timers,
          status |-> status, sent |-> sent]

SetWorld(w) ==
  /\ shared' = w.shared
  /\ socks' = w.socks
  /\ timers' = w.timers
  /\ status' = w.status
  /\ sent' = w.sent

HasFreeSock == \E k \in SockIds : socks[k] = "NONE"
HasFreeTimer == \E k \in TimerIds : timers[k] = 0
Mounted(i) == i \in shared.messageListeners
QueueRoom == Len(h.queue) <= MaxQueue

\* the sessionId the closures of hook i hold
SessionOf(i) == IF i = 1 THEN h.sessionId ELSE "s1"

---------------------------------------------------------------------------
(* Actions of the connection *)

\* the listener effect of hook i runs
Mount(i) ==
  /\ ~Mounted(i)
  /\ SetWorld(registerConnectionListener(registerMessageListener(World, i), i))
  /\ UNCHANGED <<h, log, twin>>

\* the cleanup of the listener effect of hook i runs
Unmount(i) ==
  /\ Mounted(i)
  /\ SetWorld(unregisterConnectionListener(unregisterMessageListener(World, i), i))
  /\ UNCHANGED <<h, log, twin>>

Connect(i) ==
  /\ Mounted(i)
  /\ ~isSharedWebSocketConnected(World) => Len(shared.openListeners) < MaxOpenListeners
  /\ CreatesSocket(World) => HasFreeSock
  /\ i = 1 => QueueRoom
  /\ SetWorld(connectWorld(World, i, SessionOf(i)))
  /\ h' = IF i = 1 THEN connectHook(World, h) ELSE h
  /\ UNCHANGED <<log, twin>>

Disconnect(i) ==
  /\ Mounted(i)
  /\ status' = [status EXCEPT ![i] = "disconnected"]
  /\ UNCHANGED <<h, shared, socks, timers, sent, twin>>

SocketOpen(k) ==
  /\ socks[k] = "CONNECTING"
  /\ SetWorld(OnOpen(World, k))
  /\ UNCHANGED <<h, log, twin>>

\* the closing handshake of socket k starts
SocketClosing(k) ==
  /\ socks[k] = "OPEN"
  /\ socks' = [socks EXCEPT ![k] = "CLOSING"]
  /\ UNCHANGED <<h, shared, timers, status, sent, log, twin>>

SocketClose(k) ==
  /\ socks[k] # "NONE"
  /\ SchedulesReconnect(shared) => HasFreeTimer
  /\ SetWorld(OnClose(World, k))
  /\ UNCHANGED <<h, log, twin>>

TimerFire(t) ==
  /\ timers[t] # 0
  /\ (shared.messageListeners # {} /\ CreatesSocket(World)) => HasFreeSock
  /\ SetWorld(OnReconnectTimer(World, t))
  /\ UNCHANGED <<h, log, twin>>

---------------------------------------------------------------------------
(* Actions of the hook *)

Send(content) ==
  /\ QueueRoom
  /\ SendAccepted(World, h) => h.nextId < 2 * MaxSends
  /\ h' = sendHook(World, h, content)
  /\ SetWorld(sendWorld(World, h, content))
  /\ UNCHANGED twin

Cancel ==
  /\ isSharedWebSocketConnected(World) => Len(sent[shared.ws]) < MaxSent
  /\ SetWorld(cancelWorld(World, h))
  /\ h' = cancelHook(World, h)
  /\ UNCHANGED <<log, twin>>

ClearMessages ==
  /\ QueueRoom
  /\ h' = clearMessages(h)
  /\ UNCHANGED <<shared, socks, timers, status, sent, log, twin>>

\* ws.onmessage of an open socket broadcasts frame msg
Deliver(msg) ==
  /\ Mounted(1)
  /\ \E k \in SockIds : socks[k] = "OPEN"
  /\ QueueRoom
  /\ h' = handleMessage(msg, h)
  /\ UNCHANGED <<shared, socks, timers, status, sent, twin>>

Render ==
  /\ h.queue # <<>>
  /\ h' = RenderHook(h)
  /\ UNCHANGED <<shared, socks, timers, status, sent, log, twin>>

---------------------------------------------------------------------------
(* The connection manager with the hooks that share it *)

NextConn ==
  \/ \E i \in Hooks : Mount(i)
  \/ \E i \in Hooks : Unmount(i)
  \/ \E i \in Hooks : Connect(i)
  \/ \E k \in SockIds : SocketOpen(k)
  \/ \E k \in SockIds : SocketClosing(k)
  \/ \E k \in SockIds : SocketClose(k)
  \/ \E t \in TimerIds : TimerFire(t)
  \/ Render

SpecConn == Init /\ [][NextConn]_vars

---------------------------------------------------------------------------
(* Turns of the session controller: hook 1 with the socket it needs,       *)
(* send(), text, complete and error, and a render at any point between two *)
(* handlers.  log keeps the number of frames only.                         *)

\* a step that dispatches a frame, counted in log
Counted(DeliverStep) ==
  /\ Len(log) < MaxFrames
  /\ DeliverStep
  /\ log' = Append(log, "frame")

Tools == {"t1", "t2"}

TurnPayloads == {Token(<<"A">>), Complete, ChatError("boom")}

NextTurns ==
  \/ Mount(1)
  \/ Connect(1)
  \/ \E k \in SockIds : SocketOpen(k)
  \/ \E k \in SockIds : SocketClose(k)
  \/ \E c \in {<<"q">>} : Send(c) /\ UNCHANGED log
  \/ ClearMessages
  \/ \E p \in TurnPayloads : Counted(Deliver(ChatFrame(1, p)))
  \/ Render

SpecTurns == Init /\ [][NextTurns]_vars

---------------------------------------------------------------------------
(* Sequence tracking: frames of both kinds with any seq, in any order *)

Seqs == 0..MaxSeq

SeqFrames ==
  {ChatFrame(q, Token(<<"A">>)) : q \in Seqs}
    \cup {SystemFrame(q, [action |-> "connected"]) : q \in Seqs}
    \cup {SystemFrame(q, Connected(cs)) : q \in Seqs, cs \in Seqs}

NextSeq ==
  \/ Mount(1)
  \/ Connect(1)
  \/ \E k \in SockIds : SocketOpen(k)
  \/ \E f \in SeqFrames : Counted(Deliver(f))
  \/ Render

SpecSeq == Init /\ [][NextSeq]_vars

---------------------------------------------------------------------------
(* One turn, event by event: after the first accepted send(), log keeps    *)
(* the payloads dispatched to the hook, in order.                          *)

TurnStarted == h.nextId > 1

\* a step of the turn that dispatches one of payloads, kept in log
Scripted(payloads) ==
  \E p \in payloads :
    /\ TurnStarted
    /\ Len(log) < MaxScript
    /\ Deliver(ChatFrame(1, p))
    /\ log' = Append(log, p)

\* the first send() of the hook
FirstSend == \E c \in {<<"q">>} : ~TurnStarted /\ Send(c) /\ UNCHANGED log

\* text around one tool
ScriptPayloads ==
  {Token(<<"A">>), Token(<<"B">>), ToolStart("t1"), ToolEnd("t1"), Complete}

NextScript ==
  \/ Mount(1)
  \/ Connect(1)
  \/ \E k \in SockIds : SocketOpen(k)
  \/ FirstSend
  \/ Scripted(ScriptPayloads)
  \/ Render

SpecScript == Init /\ [][NextScript]_vars

\* two tools, which may overlap
ToolPayloads ==
  {ToolStart(i) : i \in Tools} \cup {ToolEnd(i) : i \in Tools} \cup {Complete}

NextTools ==
  \/ Mount(1)
  \/ Connect(1)
  \/ \E k \in SockIds : SocketOpen(k)
  \/ FirstSend
  \/ Scripted(ToolPayloads)
  \/ Render

SpecTools == Init /\ [][NextTools]_vars

---------------------------------------------------------------------------
(* Claims *)

\* C1: lastSeq never decreases: whatever frame is dispatched (chat or
\* system, any seq, a 'connected' frame with a currentSeq included), lastSeq
\* after the frame is at least lastSeq before it.
C1_LastSeqNeverDecreases == [][h'.lastSeq >= h.lastSeq]_vars

StreamingMessages == {k \in 1..Len(h.messages) : h.messages[k].isStreaming}

\* C2: in every reachable state at most one message of the history has
\* isStreaming = true.
C2_AtMostOneStreaming == Cardinality(StreamingMessages) <= 1

\* the setter calls pending for every state hook but error
NotError(q) == SelectSeq(q, LAMBDA u : u.hk # "error")

\* the hook and the frames sent after a call of send() in the current state
AfterSend == sendHook(World, h, <<"q">>)
SentAfterSend == sendWorld(World, h, <<"q">>).sent

\* C3: a send() while a turn is streaming changes neither the history, nor a
\* turn buffer, nor a pending setter call for them, and transmits no frame.
C3_SendWhileStreamingRejected ==
  h.isStreamingRef
    => /\ [AfterSend EXCEPT !.queue = h.queue] = h
       /\ NotError(AfterSend.queue) = NotError(h.queue)
       /\ SentAfterSend = sent

\* C3: a turn is streaming on an open socket, its placeholder is in the
\* history, and send() can be called: the call is the rejected one, and
\* leaves this state as it is.
C3_Witness ==
  /\ h.isStreamingRef
  /\ isSharedWebSocketConnected(World)
  /\ h.queue = <<>>
  /\ Len(h.messages) = 2
  /\ h.messages[2].isStreaming
  /\ ENABLED (\E c \in {<<"q">>} : Send(c))

\* the setter calls send() makes in the current state
SendCalls == sendHook(World, [h EXCEPT !.queue = <<>>], <<"q">>).queue

\* the error a sequence of setter calls sets last, NoError without any
ErrorSet(q) ==
  IF LastOf(q, "error") > 0 THEN q[LastOf(q, "error")].val ELSE NoError

\* C4 as claimed: a rejected send() sets the error state, when the socket is
\* not connected and when a turn is already streaming.
C4_RejectedSendSetsError ==
  ~SendAccepted(World, h) => ErrorSet(SendCalls) # NoError

\* C4 as amended: a send() rejected because the socket is not connected sets
\* the error state to 'Not connected' and does nothing else; a send()
\* rejected because a turn is streaming on a connected socket changes
\* nothing, the error state included.
C4_RejectedSendError ==
  ~SendAccepted(World, h)
    => /\ SentAfterSend = sent
       /\ IF ~isSharedWebSocketConnected(World)
          THEN SendCalls = <<Upd("error", "set", "Not connected")>>
          ELSE AfterSend = h

\* C4: a send() was rejected for want of a connection and the error is shown.
C4_Witness ==
  /\ h.error = "Not connected"
  /\ h.messages = <<>>
  /\ ~isSharedWebSocketConnected(World)

\* what a content block shows: its type, and its text or the ids of its tools
BlockShape(b) ==
  IF b.type = "text" THEN <<"text", b.content>>
  ELSE <<"tool_group", [k \in 1..Len(b.tools) |-> b.tools[k].id]>>

Shapes(blocks) == [k \in 1..Len(blocks) |-> BlockShape(blocks[k])]

\* the turn is over and rendered: complete was the last frame of the turn
\* and no setter call is pending
Finalized ==
  /\ TurnStarted
  /\ Len(log) > 0
  /\ log[Len(log)] = Complete
  /\ h.queue = <<>>
  /\ Len(h.messages) = 2

\* the assistant message of the (first) turn
Assistant == h.messages[2]

C5_Script ==
  <<Token(<<"A">>), ToolStart("t1"), ToolEnd("t1"), Token(<<"B">>), Complete>>

\* C5: after an accepted send(), the frames token(A), tool_start(T1),
\* tool_end(T1), token(B), complete finalize the assistant message with
\* contentBlocks = [Text(A), ToolGroup([T1]), Text(B)], in that order.
C5_TextToolTextOrder ==
  (Finalized /\ log = C5_Script)
    => Shapes(Assistant.contentBlocks)
         = << <<"text", <<"A">> >>, <<"tool_group", <<"t1">> >>,
              <<"text", <<"B">> >> >>


\* C5: the same frames with a render after each of them give the blocks in
\* the claimed order, with the text and the tool of the turn.
C5_RenderedEachFrame ==
  /\ Finalized
  /\ log = C5_Script
  /\ Shapes(Assistant.contentBlocks)
       = << <<"text", <<"A">> >>, <<"tool_group", <<"t1">> >>,
            <<"text", <<"B">> >> >>
  /\ Assistant.content = <<"A", "B">>
  /\ Assistant.tools = <<EndTool("t1")>>
  /\ ~Assistant.isStreaming


---------------------------------------------------------------------------
(* A snapshot, and its events as live frames.  When the snapshot arrives,  *)
(* twin becomes a second controller in the state the hook had before the   *)
(* snapshot; log keeps the frames that are still to come for twin: the     *)
(* events of the snapshot, then the snapshot without its events.           *)

SnapshotEvents == {Token(<<"A">>), ToolStart("t1"), ToolEnd("t1"), Complete}

RECURSIVE EventSeqs(_)
EventSeqs(n) ==
  IF n = 0 THEN {<<>>}
  ELSE EventSeqs(n - 1)
         \cup {Append(evs, ChatFrame(1, p)) :
                 evs \in EventSeqs(n - 1), p \in SnapshotEvents}

ChatStates == {ChatState("streaming", <<"A">>, <<>>), ChatState("idle", <<>>, <<>>)}

SnapshotPayloads ==
  {Snapshot(evs) : evs \in EventSeqs(MaxEvents)}
    \cup {SnapshotState(evs, cs) : evs \in EventSeqs(MaxEvents), cs \in ChatStates}

\* the snapshot is dispatched to the hook
SnapshotArrives ==
  \E payload \in SnapshotPayloads :
    /\ twin = <<>>
    /\ log = <<>>
    /\ Mounted(1)
    /\ \E k \in SockIds : socks[k] = "OPEN"
    /\ h' = handleMessage(SystemFrame(2, payload), h)
    /\ twin' = <<h>>
    /\ UNCHANGED <<shared, socks, timers, status, sent>>
    /\ log' = Append(payload.events,
                     SystemFrame(2, [payload EXCEPT !.events = <<>>]))

\* the next frame is dispatched to the second controller
TwinDeliver ==
  /\ twin # <<>>
  /\ log # <<>>
  /\ twin' = <<handleMessage(Head(log), twin[1])>>
  /\ log' = Tail(log)
  /\ UNCHANGED <<h, shared, socks, timers, status, sent>>

\* React renders the second controller
TwinRender ==
  /\ twin # <<>>
  /\ twin[1].queue # <<>>
  /\ twin' = <<RenderHook(twin[1])>>
  /\ UNCHANGED <<h, shared, socks, timers, status, sent, log>>

NextSnap ==
  \/ Mount(1)
  \/ Connect(1)
  \/ \E k \in SockIds : SocketOpen(k)
  \/ (twin = <<>> /\ FirstSend)
  \/ SnapshotArrives
  \/ TwinDeliver
  \/ TwinRender
  \/ Render

SpecSnap == Init /\ [][NextSnap]_vars

\* the tool entries of a sequence of content blocks, in order
RECURSIVE ToolEntries(_)
ToolEntries(blocks) ==
  IF blocks = <<>> THEN <<>>
  ELSE Head(blocks).tools \o ToolEntries(Tail(blocks))

Occurrences(ts, i) == Cardinality({k \in 1..Len(ts) : ts[k].id = i})

\* the positions of log that hold a given payload
Positions(p) == {k \in 1..Len(log) : log[k] = p}

\* log is a sequence of tool_start and tool_end events with pairwise
\* distinct ids, a tool_end only after its tool_start, and at most a final
\* complete
DistinctToolEvents ==
  /\ \A i \in Tools :
       /\ Cardinality(Positions(ToolStart(i))) <= 1
       /\ Cardinality(Positions(ToolEnd(i))) <= 1
       /\ \A e \in Positions(ToolEnd(i)) :
            \E b \in Positions(ToolStart(i)) : b < e
  /\ \A k \in 1..Len(log) : log[k] = Complete => k = Len(log)

\* C6: for tool_start/tool_end events with pairwise distinct ids in one turn
\* (the pairs may overlap), each started id is exactly once in the ToolGroup
\* blocks of the finalized message, and an entry has a duration only if the
\* tool_end of its id was received.
C6_EachToolOnce ==
  (Finalized /\ DistinctToolEvents)
    => LET entries == ToolEntries(Assistant.contentBlocks)
       IN /\ \A i \in Tools :
               Occurrences(entries, i)
                 = (IF Positions(ToolStart(i)) # {} THEN 1 ELSE 0)
          /\ \A k \in 1..Len(entries) :
               entries[k].duration # 0
                 => Positions(ToolEnd(entries[k].id)) # {}

\* C6: two tools that overlap were started and ended, and the turn is
\* finalized with both of them, durations included.
C6_Witness ==
  /\ Finalized
  /\ log = <<ToolStart("t1"), ToolStart("t2"), ToolEnd("t1"), ToolEnd("t2"),
             Complete>>
  /\ LET entries == ToolEntries(Assistant.contentBlocks)
     IN /\ Len(entries) = 2
        /\ \A k \in 1..2 : entries[k].duration # 0

NoDuplicateIds(ts) == \A i \in Tools : Occurrences(ts, i) <= 1

\* C7: a tool_start for an id that is already in the open tool group (in
\* the activeTools list) leaves the group (the list) as it is, and neither
\* ever holds two entries with the same id.
C7_ToolStartIdempotent ==
  /\ NoDuplicateIds(h.currentToolGroup)
  /\ NoDuplicateIds(h.activeTools)
  /\ \A i \in Tools :
       /\ HasId(h.currentToolGroup, i)
            => handleToolStartAction(ToolStart(i), h).currentToolGroup
                 = h.currentToolGroup
       /\ HasId(h.activeTools, i)
            => ApplyUpdate(h, Upd("activeTools", "start", StartTool(i))).activeTools
                 = h.activeTools

\* C7: tool_start came twice for t1 and the group and the list hold it once.
C7_Witness ==
  /\ log = <<ToolStart("t1"), ToolStart("t1")>>
  /\ h.queue = <<>>
  /\ h.currentToolGroup = <<StartTool("t1")>>
  /\ h.activeTools = <<StartTool("t1")>>

\* C8: within one turn, whatever tool_start and tool_end events come (a
\* tool_start repeated after its group was sealed included), no tool id is in
\* more than one entry of the content blocks of the turn, sealed or open.
C8_ToolIdUniqueInTurn ==
  /\ NoDuplicateIds(ToolEntries(LiveContentBlocks(h)))
  /\ Len(h.messages) = 2 => NoDuplicateIds(ToolEntries(Assistant.contentBlocks))


\* what a controller shows and keeps of the conversation
Controller(s) ==
  [messages |-> s.messages,
   contentBlocks |-> LiveContentBlocks(s),
   streamingContent |-> s.streamingContent,
   activeTools |-> s.activeTools,
   completedTools |-> s.completedTools,
   todos |-> s.todos,
   isStreaming |-> s.isStreaming,
   lastSeq |-> s.lastSeq]

\* both controllers have handled all their frames and are rendered
SnapshotSettled ==
  /\ twin # <<>>
  /\ log = <<>>
  /\ h.queue = <<>>
  /\ twin[1].queue = <<>>

\* C9: a snapshot with N events leaves the controller in the state that the
\* N events, received one by one as live frames and followed by the chatState
\* of the snapshot, leave it in.
C9_SnapshotEqualsLive ==
  SnapshotSettled => Controller(h) = Controller(twin[1])


\* the retry budget is used up and the socket of the last attempt has closed
BudgetExhausted ==
  /\ shared.reconnectAttempts = MAX_RECONNECT_ATTEMPTS
  /\ shared.ws = 0
  /\ \A t \in TimerIds : timers[t] = 0

\* a hook calls connect()
ConnectCalled == \E i \in Hooks : Connect(i)

\* C10: once the retry budget is exhausted, a step other than connect()
\* schedules no reconnect timer, creates no socket and leaves the status of
\* a controller at 'disconnected'.
C10_NoReconnectAfterExhaustion ==
  [][(BudgetExhausted /\ ~ConnectCalled)
       => /\ \A t \in TimerIds : timers'[t] = 0
          /\ \A k \in SockIds : socks'[k] = "CONNECTING" => socks[k] = "CONNECTING"
          /\ \A i \in Hooks : status[i] = "disconnected" => status'[i] = "disconnected"]_vars

---------------------------------------------------------------------------
(* Text of a turn *)

IsToken(p) == p.action = "token"

\* the token contents of a sequence of payloads, concatenated in order
RECURSIVE TokenText(_)
TokenText(ps) ==
  IF ps = <<>> THEN <<>>
  ELSE (IF IsToken(Head(ps)) THEN Head(ps).content ELSE <<>>)
         \o TokenText(Tail(ps))

\* log is token events followed by complete
TokensThenComplete ==
  /\ Len(log) > 0
  /\ log[Len(log)] = Complete
  /\ \A k \in 1..(Len(log) - 1) : IsToken(log[k])

\* C11: after an accepted send(), token events followed by complete
\* finalize the assistant message with the concatenation of the token
\* contents, in arrival order, as its content.
C11_ContentIsConcatenation ==
  (Finalized /\ TokensThenComplete) => Assistant.content = TokenText(log)

---------------------------------------------------------------------------
(* One turn with whitespace-only text around one tool *)

BlankPayloads ==
  {Token(<<" ">>), Token(<<"A">>), ToolStart("t1"), ToolEnd("t1"), Complete}

NextBlank ==
  \/ Mount(1)
  \/ Connect(1)
  \/ \E k \in SockIds : SocketOpen(k)
  \/ FirstSend
  \/ Scripted(BlankPayloads)
  \/ Render

SpecBlank == Init /\ [][NextBlank]_vars

NoBlankText(blocks) ==
  \A k \in 1..Len(blocks) : blocks[k].type = "text" => ~IsBlank(blocks[k].content)

\* the entry of a tool whose tool_start and tool_end were both received
MergedTool(i) == MergeTool(StartTool(i), EndTool(i))

\* C12: no text block, sealed or shown in a message, is empty or holds
\* whitespace only; tool_start then tool_end with no token before them give
\* exactly one ToolGroup block, with the fields of both events merged, and
\* no Text block.
C12_NoBlankTextBlock ==
  /\ NoBlankText(h.contentBlocks)
  /\ \A k \in 1..Len(h.messages) : NoBlankText(h.messages[k].contentBlocks)
  /\ (TurnStarted /\ log = <<ToolStart("t1"), ToolEnd("t1")>>)
       => LiveContentBlocks(h) = <<ToolGroupBlock(<<MergedTool("t1")>>)>>
  /\ (Finalized /\ log = <<ToolStart("t1"), ToolEnd("t1"), Complete>>)
       => Assistant.contentBlocks = <<ToolGroupBlock(<<MergedTool("t1")>>)>>

\* C12: the turn of tool_start, tool_end, complete is finalized with one
\* ToolGroup block that has the input of the start and the duration of the end.
C12_Witness ==
  /\ Finalized
  /\ log = <<ToolStart("t1"), ToolEnd("t1"), Complete>>
  /\ Len(Assistant.contentBlocks) = 1
  /\ Assistant.contentBlocks[1].tools
       = <<[id |-> "t1", input |-> 1, duration |-> 12]>>

---------------------------------------------------------------------------
(* The sockets of the URL *)

LiveSockets == {k \in SockIds : socks[k] \in {"CONNECTING", "OPEN"}}

\* C13: at most one WebSocket of the URL is CONNECTING or OPEN at any time,
\* whatever the order of connect() calls, listener registrations and
\* removals, reconnect timers and socket events.
C13_AtMostOneLiveSocket == Cardinality(LiveSockets) <= 1

\* the last frame listener of the URL unsubscribes
LastListenerLeaves == shared.messageListeners # {} /\ shared.messageListeners' = {}

\* no frame listener is registered before and after the step
NoListenerStep == shared.messageListeners = {} /\ shared.messageListeners' = {}

\* C14: when the last frame listener unsubscribes, no socket of the URL stays
\* CONNECTING or OPEN and no reconnect timer stays pending; while no frame
\* listener is registered, no reconnect timer is scheduled and no socket is
\* created.
C14_TeardownWithLastListener ==
  [][/\ LastListenerLeaves
          => /\ \A k \in SockIds : socks'[k] \notin {"CONNECTING", "OPEN"}
             /\ \A t \in TimerIds : timers'[t] = 0
     /\ NoListenerStep
          => /\ \A k \in SockIds : socks'[k] = "CONNECTING" => socks[k] = "CONNECTING"
             /\ \A t \in TimerIds : timers'[t] # 0 => timers[t] # 0]_vars

---------------------------------------------------------------------------
(* Frames delivered again *)

\* the text a controller accumulates: pending text and queued appends
TextState(s) == [pendingText |-> s.pendingText, queue |-> s.queue]

\* a token frame whose seq is not greater than lastSeq
AppliedTokenFrames ==
  {ChatFrame(q, Token(<<"A">>)) : q \in {n \in 1..MaxSeq : n <= h.lastSeq}}

\* C15: a chat frame whose seq is not greater than lastSeq, delivered again
\* as a live frame or in the events of a snapshot, is not applied: the text
\* of its token is not appended a second time.
C15_AppliedFrameNotReapplied ==
  \A f \in AppliedTokenFrames :
    /\ TextState(handleMessage(f, h)) = TextState(h)
    /\ TextState(handleMessage(SystemFrame(f.seq, Snapshot(<<f>>)), h)) = TextState(h)

---------------------------------------------------------------------------
(* A turn that is cancelled *)

CancelPayloads == {Token(<<"A">>), Complete, ChatError("boom")}

NextCancel ==
  \/ Mount(1)
  \/ Connect(1)
  \/ \E k \in SockIds : SocketOpen(k)
  \/ \E k \in SockIds : SocketClose(k)
  \/ FirstSend
  \/ (Cancel /\ QueueRoom)
  \/ Scripted(CancelPayloads)
  \/ Render

SpecCancel == Init /\ [][NextCancel]_vars

\* what cancel() does in the current state
CancelEffect ==
  /\ cancelHook(World, h) = h
  /\ ~isSharedWebSocketConnected(World) => cancelWorld(World, h) = World
  /\ isSharedWebSocketConnected(World)
       => cancelWorld(World, h)
            = [World EXCEPT !.sent[shared.ws] = Append(@, CancelFrame(h.sessionId))]

\* a step that ends the streaming of the turn handles complete or error
StreamingEndsByFrame ==
  (h.isStreamingRef /\ ~h'.isStreamingRef)
    => /\ Len(log') = Len(log) + 1
       /\ log'[Len(log')] \in {Complete, ChatError("boom")}

\* C16: cancel() transmits nothing when the socket is not open, and one
\* chat/cancel frame otherwise; it leaves isStreaming, the messages and the
\* buffers of the turn as they are, and a turn stays streaming until
\* complete or error is handled.
C16_CancelOnlyTransmits == []CancelEffect /\ [][StreamingEndsByFrame]_vars

\* C16: a cancel frame was transmitted in a turn, and the turn is still
\* streaming.
C16_Witness ==
  /\ isSharedWebSocketConnected(World)
  /\ Len(sent[shared.ws]) > 0
  /\ sent[shared.ws][Len(sent[shared.ws])] = CancelFrame(h.sessionId)
  /\ h.queue = <<>>
  /\ h.isStreaming /\ h.isStreamingRef
  /\ Len(h.messages) = 2 /\ h.messages[2].isStreaming

---------------------------------------------------------------------------
(* clearMessages() *)

\* the hook after clearMessages() and the render that follows it
AfterClear == RenderHook(clearMessages(h))

\* C17: clearMessages() resets the message history and every buffer of the
\* turn: pending text, sealed content blocks, open tool group, accumulated
\* streaming text, completed tools, the id of the placeholder and the
\* streaming flag.
C17_ClearResetsTurn ==
  /\ AfterClear.messages = <<>>
  /\ AfterClear.pendingText = <<>>
  /\ AfterClear.contentBlocks = <<>>
  /\ AfterClear.currentToolGroup = <<>>
  /\ AfterClear.streamingContent = <<>>
  /\ AfterClear.streamingContentRef = <<>>
  /\ AfterClear.completedTools = <<>>
  /\ AfterClear.completedToolsRef = <<>>
  /\ AfterClear.currentAssistantMessage = 0
  /\ ~AfterClear.isStreaming
  /\ ~AfterClear.isStreamingRef

---------------------------------------------------------------------------
(* disconnect() of one of two controllers that share the socket.  log      *)
(* keeps "disconnect" for a disconnect() of hook 1 and "frame" for a frame  *)
(* broadcast to the listeners; hook 1 calls connect() only before its       *)
(* disconnect().                                                            *)

Disconnected == \E k \in 1..Len(log) : log[k] = "disconnect"

DisconnectPayloads == {Token(<<"A">>), Complete}

NextDisconnect ==
  \/ \E i \in Hooks : Mount(i)
  \/ (~Disconnected /\ Connect(1))
  \/ Connect(2)
  \/ \E k \in SockIds : SocketOpen(k)
  \/ (~Disconnected /\ FirstSend)
  \/ (Len(log) < MaxFrames /\ Disconnect(1) /\ log' = Append(log, "disconnect"))
  \/ \E p \in DisconnectPayloads : Counted(Deliver(ChatFrame(1, p)))
  \/ Render

SpecDisconnect == Init /\ [][NextDisconnect]_vars

\* a frame is broadcast in the step
FrameStep == Len(log') = Len(log) + 1 /\ log'[Len(log')] = "frame"

\* the shared socket is open, with the other controller subscribed
OpenForOthers(w) == WsOpen(w) /\ 2 \in w.shared.messageListeners

\* C18: after disconnect(), while the shared socket stays open for the other
\* subscriber and until connect() is called, a frame changes nothing of the
\* controller (messages, streaming state) and its status stays
\* 'disconnected'.
C18_DisconnectedIgnoresFrames ==
  [][(Disconnected /\ OpenForOthers(World) /\ OpenForOthers(World'))
       => /\ FrameStep => h' = h
          /\ status'[1] = "disconnected"]_vars

---------------------------------------------------------------------------
(* Frames that do not parse or do not validate.  log keeps the frames      *)
(* broadcast to the hook.                                                  *)

\* payloads that fail validation: an unknown tag, no tag, a tool that is no
\* ToolUseData, a chatState that is no chat state
InvalidChatPayloads ==
  {[action |-> "bogus"],
   [content |-> <<"A">>],
   [action |-> "token", content |-> <<"A">>, tool |-> [name |-> "Read"]]}

InvalidSystemPayloads ==
  {[action |-> "bogus"],
   [action |-> "error", error |-> "boom", chatState |-> [tools |-> <<>>]]}

InvalidFrames ==
  {ChatFrame(q, p) : q \in 1..MaxSeq, p \in InvalidChatPayloads}
    \cup {SystemFrame(q, p) : q \in 1..MaxSeq, p \in InvalidSystemPayloads}

BadFrames == {NotJSON} \cup InvalidFrames

GoodFrames == {ChatFrame(1, Token(<<"A">>)), ChatFrame(2, Complete)}

\* a frame is broadcast to the hook and kept in log
Logged(frames) ==
  \E f \in frames :
    /\ Len(log) < MaxFrames
    /\ Deliver(f)
    /\ log' = Append(log, f)

NextFrames ==
  \/ Mount(1)
  \/ Connect(1)
  \/ \E k \in SockIds : SocketOpen(k)
  \/ FirstSend
  \/ Logged(BadFrames)
  \/ Logged(GoodFrames)
  \/ Render

SpecFrames == Init /\ [][NextFrames]_vars

\* C19: a frame whose data is no JSON text changes nothing of the
\* controller: lastSeq, messages, buffers, error and pending setter calls
\* are as before, and the listener returns normally.
C19_UnparseableFrameDropped == handleMessage(NotJSON, h) = h

\* C19: a frame that does not parse was handled in the middle of a turn,
\* after a token, and the turn goes on as it was.
C19_Witness ==
  /\ log = <<ChatFrame(1, Token(<<"A">>)), NotJSON>>
  /\ h.isStreamingRef
  /\ h.pendingText = <<"A">>
  /\ h.lastSeq = 1
  /\ h.error = NoError

\* C20: a frame whose payload fails validation changes at most lastSeq,
\* which becomes the seq of the frame when that is larger.
C20_InvalidPayloadDropped ==
  \A f \in InvalidFrames :
    handleMessage(f, h) = [h EXCEPT !.lastSeq = Max(h.lastSeq, f.seq)]

\* C20: a token frame with a malformed tool was handled in the middle of a
\* turn, after a token: the text is the text of the first token and lastSeq
\* is the seq of the dropped frame.
C20_Witness ==
  /\ log = <<ChatFrame(1, Token(<<"A">>)),
             ChatFrame(2, [action |-> "token", content |-> <<"A">>,
                           tool |-> [name |-> "Read"]])>>
  /\ h.isStreamingRef
  /\ h.pendingText = <<"A">>
  /\ h.lastSeq = 2

---------------------------------------------------------------------------
(* A chat error in the middle of a turn *)

\* the hook after the chat error frame and the render that follows it
AfterError == RenderHook(handleMessage(ChatFrame(1, ChatError("boom")), h))

\* the placeholder of the turn in flight, in a history
InFlight(ms) == {k \in 1..Len(ms) : ms[k].id = h.currentAssistantMessage}

\* C21: after a chat error in a streaming turn the placeholder of the turn
\* holds no text, tool or content block of the turn, the error state holds
\* the message of the event, the error callback has run once, and every
\* buffer of the turn is empty.
C21_ErrorDiscardsPartialTurn ==
  h.isStreamingRef
    => /\ \A k \in InFlight(AfterError.messages) :
            /\ AfterError.messages[k].content = <<>>
            /\ AfterError.messages[k].tools = <<>>
            /\ AfterError.messages[k].contentBlocks = <<>>
       /\ AfterError.error = "boom"
       /\ AfterError.onErrorCalls = h.onErrorCalls + 1
       /\ AfterError.pendingText = <<>>
       /\ AfterError.contentBlocks = <<>>
       /\ AfterError.currentToolGroup = <<>>
       /\ AfterError.streamingContent = <<>>
       /\ AfterError.streamingContentRef = <<>>
       /\ AfterError.activeTools = <<>>
       /\ AfterError.completedTools = <<>>
       /\ AfterError.completedToolsRef = <<>>

---------------------------------------------------------------------------
(* The message history *)

\* every user message of a history is followed at once by an assistant message
UserThenAssistant(ms) ==
  \A k \in 1..Len(ms) :
    ms[k].role = "user" => (k < Len(ms) /\ ms[k + 1].role = "assistant")

\* C22: no user message is the last message of the history, and every user
\* message is immediately followed by an assistant message: send() appends
\* the user message and its placeholder in one state update.
C22_UserWithPlaceholder == UserThenAssistant(h.messages)

\* C22: two sends were accepted and rendered; the history is user,
\* assistant, user, placeholder.
C22_Witness ==
  /\ Len(h.messages) = 4
  /\ h.messages[1].role = "user" /\ h.messages[2].role = "assistant"
  /\ h.messages[3].role = "user" /\ h.messages[4].role = "assistant"
  /\ h.messages[4].isStreaming
  /\ h.messages[4].id = h.currentAssistantMessage

\* a setMessages([]) of clearMessages() is pending
ClearPending ==
  \E k \in 1..Len(h.queue) : h.queue[k].hk = "messages" /\ h.queue[k].op = "set"

\* the history after a step has the messages it had before, in their order,
\* and the messages that were not streaming are as they were
HistoryKept ==
  /\ Len(h'.messages) >= Len(h.messages)
  /\ \A k \in 1..Len(h.messages) :
       /\ h'.messages[k].id = h.messages[k].id
       /\ ~h.messages[k].isStreaming => h'.messages[k] = h.messages[k]

\* C23: a step that does not apply clearMessages() keeps the ids and the
\* order of the messages of the history, and changes no message that has
\* isStreaming = false (a finalized message or a user message).
C23_HistoryAppendOnly == [][~ClearPending => HistoryKept]_vars

\* C23: the first turn is finalized with its text, and the second turn is
\* streaming with the text of its own token in its placeholder.
C23_Witness ==
  /\ Len(h.messages) = 4
  /\ ~h.messages[2].isStreaming
  /\ h.messages[2].content = <<"A">>
  /\ h.messages[4].isStreaming
  /\ h.messages[4].content = <<"A">>
  /\ h.queue = <<>>

---------------------------------------------------------------------------
(* Subscription to the session *)

\* the system/subscribe frames for session sid sent on socket k
SubscribesOn(k, sid) ==
  {j \in 1..Len(sent[k]) : sent[k][j] = SubscribeFrame(sid)}

AtMostOneSubscribe ==
  \A k \in SockIds : \A sid \in Sessions : Cardinality(SubscribesOn(k, sid)) <= 1

\* the close event of a socket is handled in the step
SocketCloses == \E k \in SockIds : socks[k] # "NONE" /\ socks'[k] = "NONE"

ReconnectOpens(k) ==
  /\ socks[k] = "CONNECTING" /\ socks'[k] = "OPEN"
  /\ shared.ws = k
  /\ Mounted(1)
  /\ status[1] = "reconnecting"
  /\ h.sessionId # NoSession

\* C25: when the socket of an automatic reconnect opens and the controller
\* has a sessionId, a system/subscribe frame with that sessionId is sent on
\* the new socket, with no connect() call of the application.
C25_ResubscribeOnReconnect ==
  [][\A k \in SockIds :
       ReconnectOpens(k)
         => \E j \in 1..Len(sent'[k]) : sent'[k][j] = SubscribeFrame(h.sessionId)]_vars

---------------------------------------------------------------------------
(* Backoff and retry budget: one controller and the socket of the URL *)

NextRetry ==
  \/ Mount(1)
  \/ Unmount(1)
  \/ Connect(1)
  \/ \E k \in SockIds : SocketOpen(k)
  \/ \E k \in SockIds : SocketClosing(k)
  \/ \E k \in SockIds : SocketClose(k)
  \/ \E t \in TimerIds : TimerFire(t)
  \/ Render

SpecRetry == Init /\ [][NextRetry]_vars

\* the reconnect timers set in the step
NewTimers == {t \in TimerIds : timers[t] = 0 /\ timers'[t] # 0}

\* the delay of the k-th consecutive reconnect attempt, in ms, when every
\* delay doubles the one before
Doubled(k) == 2000 * 2 ^ (k - 1)

\* the delays of consecutive reconnect attempts, in ms; the sixth and later
\* ones are as the fifth
BackoffSchedule == <<2000, 4000, 6000, 8000, 10000>>

C27_AttemptsWithinOption == shared.reconnectAttempts <= maxReconnectAttempts

\* the close event of a socket is handled while a frame listener is
\* registered and the retry budget is not used up
ClosesWithBudget ==
  /\ SocketCloses
  /\ shared.messageListeners # {}
  /\ shared.reconnectAttempts < 10

SocketOpens == \E k \in SockIds : socks[k] = "CONNECTING" /\ socks'[k] = "OPEN"

\* C29: the reconnect attempts counter goes back to zero only in a step in
\* which a socket opens; no close, error, listener unsubscription or
\* teardown resets it.
C29_AttemptsResetOnlyOnOpen ==
  [][(shared.reconnectAttempts > 0 /\ shared'.reconnectAttempts = 0)
       => SocketOpens]_vars

---------------------------------------------------------------------------
(* complete *)

\* the hook after the setter calls that are pending have taken effect
Settled == RenderHook(h)

\* the hook after the chat frame complete and the render that follows it
AfterComplete == RenderHook(handleMessage(ChatFrame(1, Complete), h))

\* the position of the placeholder of the turn in the history that the
\* updater of complete finds; 0 without one
Placeholder ==
  FindIndex(Settled.messages, LAMBDA m : m.id = h.currentAssistantMessage)

\* the content blocks of the turn once pending text and open group are sealed
SealedBlocks == FlushToolGroup(FlushPendingText(Settled)).contentBlocks

\* C30: on complete, when the placeholder with the assigned id is in the
\* history, that message gets the accumulated content, the completed tools
\* and the sealed content blocks of the turn and isStreaming = false, every
\* other message is as it was, and afterwards the buffers of the turn are
\* empty, the placeholder id is null and isStreaming is false.
C30_CompleteOverwritesPlaceholder ==
  (h.isStreamingRef /\ h.currentAssistantMessage # 0 /\ Placeholder > 0)
    => /\ Len(AfterComplete.messages) = Len(Settled.messages)
       /\ \A k \in 1..Len(Settled.messages) :
            IF k = Placeholder
            THEN AfterComplete.messages[k]
                   = [Settled.messages[k] EXCEPT
                        !.content = Settled.streamingContent,
                        !.tools = Settled.completedTools,
                        !.contentBlocks = SealedBlocks,
                        !.isStreaming = FALSE]
            ELSE AfterComplete.messages[k] = Settled.messages[k]
       /\ AfterComplete.pendingText = <<>>
       /\ AfterComplete.contentBlocks = <<>>
       /\ AfterComplete.currentToolGroup = <<>>
       /\ AfterComplete.streamingContent = <<>>
       /\ AfterComplete.streamingContentRef = <<>>
       /\ AfterComplete.activeTools = <<>>
       /\ AfterComplete.completedTools = <<>>
       /\ AfterComplete.completedToolsRef = <<>>
       /\ AfterComplete.currentAssistantMessage = 0
       /\ ~AfterComplete.isStreaming
       /\ ~AfterComplete.isStreamingRef

---------------------------------------------------------------------------
(* The buffers of the turn at send() *)

\* C31: right after an accepted send() the pending text, the sealed content
\* blocks and the open tool group are empty, so nothing received before the
\* send is in the content blocks of the new turn.
C31_SendResetsBuffers ==
  SendAccepted(World, h)
    => /\ AfterSend.pendingText = <<>>
       /\ AfterSend.contentBlocks = <<>>
       /\ AfterSend.currentToolGroup = <<>>

---------------------------------------------------------------------------
(* A snapshot of a streaming turn, then complete *)

\* a snapshot with no events, whose chatState is a turn streaming with
\* accumulated content 'A' and the completed tool t1
StreamingSnapshot ==
  SystemFrame(2, SnapshotState(<<>>, ChatState("streaming", <<"A">>, <<EndTool("t1")>>)))

\* a frame can be broadcast to the hook
CanReceive == Mounted(1) /\ \E k \in SockIds : socks[k] = "OPEN"

\* the hook after the snapshot is handled and rendered, and then after
\* complete is handled and rendered
Restored == RenderHook(handleMessage(StreamingSnapshot, h))
RestoredThenComplete ==
  LET before == <<Restored>>
      after == Append(before, RenderHook(handleMessage(ChatFrame(2, Complete),
                                                       before[1])))
  IN after[2]

\* C32: after a snapshot whose chatState is streaming with content C and
\* tools TS, a complete that arrives next finalizes the turn into an
\* assistant message with content C and tools TS.
C32_RestoredTurnFinalized ==
  CanReceive
    => \E k \in 1..Len(RestoredThenComplete.messages) :
         LET m == RestoredThenComplete.messages[k]
         IN /\ m.role = "assistant"
            /\ ~m.isStreaming
            /\ m.content = <<"A">>
            /\ m.tools = <<EndTool("t1")>>

---------------------------------------------------------------------------
(* Tool groups, event by event *)

\* the tool groups of a sequence of tool events as the claim describes
\* them: acc holds the open group, the ids of the active tools and the
\* sealed blocks
RECURSIVE GroupsOf(_, _)
GroupsOf(ps, acc) ==
  IF ps = <<>> THEN acc
  ELSE LET p == Head(ps)
           next ==
             IF p.action = "tool_start"
             THEN [acc EXCEPT !.group = AddToGroup(@, p.tool),
                              !.active = @ \cup {p.tool.id}]
             ELSE IF p.action = "tool_end"
             THEN LET group == MapMerge(acc.group, p.tool)
                      active == acc.active \ {p.tool.id}
                  IN IF active = {} /\ Len(group) > 0
                     THEN [group |-> <<>>, active |-> active,
                           blocks |-> Append(acc.blocks, ToolGroupBlock(group))]
                     ELSE [acc EXCEPT !.group = group, !.active = active]
             ELSE acc
       IN GroupsOf(Tail(ps), next)

GroupsOfLog == GroupsOf(log, [group |-> <<>>, active |-> {}, blocks |-> <<>>])

\* the turn is in flight, its events are tool_start and tool_end with
\* pairwise distinct ids, a tool_end after its tool_start, and no setter
\* call is pending
ToolsSettled ==
  /\ TurnStarted
  /\ h.queue = <<>>
  /\ DistinctToolEvents
  /\ \A k \in 1..Len(log) : log[k] # Complete

\* C33: a tool group is sealed as one ToolGroup block exactly when a
\* tool_end leaves no tool active; the block lists the tools in the order of
\* their tool_start, each with the fields of its tool_end merged, and the
\* open group is empty afterwards.
C33_OverlappingToolsOneGroup ==
  ToolsSettled
    => /\ h.contentBlocks = GroupsOfLog.blocks
       /\ h.currentToolGroup = GroupsOfLog.group

---------------------------------------------------------------------------
(* complete twice *)

\* the hook after a second complete and the render that follows it
AfterSecondComplete ==
  LET once == <<AfterComplete>>
      twice == Append(once, RenderHook(handleMessage(ChatFrame(1, Complete),
                                                     once[1])))
  IN twice[2]

\* C34: a second complete with no send() in between leaves the message
\* history as the first complete left it: no message is added and no
\* message is overwritten.
C34_CompleteIdempotent ==
  CanReceive => AfterSecondComplete.messages = AfterComplete.messages

---------------------------------------------------------------------------
(* isStreaming and the history *)

\* C35: isStreaming is true if and only if a message of the history is
\* marked isStreaming = true.
C35_StreamingFlagAgreesWithHistory ==
  h.isStreaming <=> StreamingMessages # {}

---------------------------------------------------------------------------
(* clearMessages() in the middle of a turn, then complete *)

\* the hook after clearMessages(), a render, complete and a render
ClearedThenComplete ==
  LET before == <<AfterClear>>
      after == Append(before, RenderHook(handleMessage(ChatFrame(1, Complete),
                                                       before[1])))
  IN after[2]

\* C36: after clearMessages() in the middle of a turn, a complete puts
\* nothing that was received before the clear back into the history: the
\* history stays empty.
C36_ClearedTurnStaysCleared ==
  (CanReceive /\ h.isStreamingRef) => ClearedThenComplete.messages = <<>>

---------------------------------------------------------------------------
(* One synchronous dispatch, and one frame for each event-loop turn *)

\* the frames of the script of C5
ScriptFrames == [k \in 1..Len(C5_Script) |-> ChatFrame(1, C5_Script[k])]

\* the frames handled one after the other with React rendering after each
\* of them (the render, and the render the live-update effect asks for)
RECURSIVE AfterEachTurn(_, _)
AfterEachTurn(frames, ss) ==
  IF frames = <<>> THEN ss
  ELSE LET handled == Append(ss, handleMessage(Head(frames), ss[Len(ss)]))
           rendered == Append(handled, RenderHook(handled[Len(handled)]))
       IN AfterEachTurn(Tail(frames),
                        Append(rendered, RenderHook(rendered[Len(rendered)])))

EachInItsTurn(frames, s) ==
  LET ss == AfterEachTurn(frames, <<s>>) IN ss[Len(ss)]

\* the hook after each of the frames, none of them followed by a render
RECURSIVE AfterEachFrame(_, _)
AfterEachFrame(frames, ss) ==
  IF frames = <<>> THEN ss
  ELSE AfterEachFrame(Tail(frames),
                      Append(ss, handleMessage(Head(frames), ss[Len(ss)])))

\* the frames handled back-to-back, as the replay loop of a snapshot does,
\* with React rendering after the last of them
InOneDispatch(frames, s) ==
  LET handled == AfterEachFrame(frames, <<s>>)
      rendered == Append(handled, RenderHook(handled[Len(handled)]))
      again == Append(rendered, RenderHook(rendered[Len(rendered)]))
  IN again[Len(again)]

\* C37: after an accepted send(), token, tool_start, tool_end, token,
\* complete handled in one synchronous dispatch finalize the same message
\* (content and content blocks) as the same frames handled each in its own
\* event-loop turn.
C37_UpdaterTimingIrrelevant ==
  (TurnStarted /\ log = <<>> /\ h.isStreamingRef)
    => InOneDispatch(ScriptFrames, h).messages
         = EachInItsTurn(ScriptFrames, h).messages

---------------------------------------------------------------------------
(* The tools list and the content blocks of a finalized message *)

ToolIds(ts) == {ts[k].id : k \in 1..Len(ts)}

FinalizedMessages ==
  {k \in 1..Len(h.messages) :
     h.messages[k].role = "assistant" /\ ~h.messages[k].isStreaming}

\* C38: in every finalized assistant message a tool id is in the tools list
\* if and only if it is in a ToolGroup block of the content blocks, whatever
\* tool_start and tool_end events came.
C38_ToolsListMatchesBlocks ==
  \A k \in FinalizedMessages :
    ToolIds(h.messages[k].tools) = ToolIds(ToolEntries(h.messages[k].contentBlocks))

---------------------------------------------------------------------------
(* The text of a finalized message and its Text blocks *)

\* the contents of the Text blocks of a sequence of content blocks,
\* concatenated in order
RECURSIVE TextOfBlocks(_)
TextOfBlocks(blocks) ==
  IF blocks = <<>> THEN <<>>
  ELSE (IF Head(blocks).type = "text" THEN Head(blocks).content ELSE <<>>)
         \o TextOfBlocks(Tail(blocks))

\* C39: in every finalized assistant message the contents of the Text
\* blocks, concatenated in order, are the content of the message, for any
\* tokens, whitespace-only tokens before a tool_start or before complete
\* included.
C39_TextBlocksGiveContent ==
  \A k \in FinalizedMessages :
    TextOfBlocks(h.messages[k].contentBlocks) = h.messages[k].content

---------------------------------------------------------------------------
(* Reconnection is live: the controller stays mounted and timers fire *)

\* the frame listener of the controller is registered once and stays
\* registered: the cleanup of the listener effect never runs
NextLive ==
  \/ Mount(1)
  \/ Connect(1)
  \/ \E k \in SockIds : SocketOpen(k)
  \/ \E k \in SockIds : SocketClosing(k)
  \/ \E k \in SockIds : SocketClose(k)
  \/ \E t \in TimerIds : TimerFire(t)
  \/ Render

\* a timer that was set fires: the callback of setTimeout is run
SpecLive ==
  Init /\ [][NextLive]_vars /\ \A t \in TimerIds : WF_vars(TimerFire(t))

\* the close handler of a socket told the registered status listener that
\* the connection is down and that fewer than MAX_RECONNECT_ATTEMPTS
\* attempts have failed
ClosedUnexpectedly == Mounted(1) /\ status[1] = "reconnecting"

\* a connection attempt for the URL is under way
Attempting == shared.ws # 0 /\ socks[shared.ws] = "CONNECTING"

\* every registered status listener was called with connected = true
AllNotified == \A i \in shared.connectionListeners : status[i] = "connected"

============================================================================
